---- MODULE Spec2Model ----
(***************************************************************************)
(* State-machine model of the three browser-side controllers of the site:  *)
(*   - the portfolio slider            (src/js/slider.js)                  *)
(*   - the UI utilities (utils.js)     (src/unnamed/part_000)              *)
(*   - the page transition controller  (src/unnamed/part_001)              *)
(* Each controller is a closure with private state; the three share only   *)
(* the document (body style, history).  Every controller has its own       *)
(* specification; the variables of the other two stay at their initial     *)
(* value under it.                                                         *)
(***************************************************************************)
EXTENDS Integers, Sequences, FiniteSets, TLC

VARIABLES
    \* ---- slider.js ----
    trackExists,    \* document.querySelector('.slider-track') found an element
    numCards,       \* cards.length
    phase,          \* "loading": init() still waits for DOMContentLoaded;
                    \* "ready": init() has run
    cardWidth, gap, currentIndex, maxIndex,
    isDragging, startX, currentX, translateX,
    trackDragging,  \* track.classList contains 'is-dragging'
    transform,      \* track.style.transform: <<>> unset, <<v>> = translateX(v px)
    clickBlockers,  \* number of preventClick capture listeners on the track
    resizeTimer,    \* the ms left on each pending calculateDimensions timeout,
                    \* in registration order; the handle names the last one
    sinceResize,    \* ms since the last resize event, counted up to the delay
                    \* (history, for the properties)
    last,           \* the last slider event handled (history, for the properties)
    dragSinceClick, \* a drag of more than 10 px has ended since the last click on
                    \* the track (history, for the properties)
    \* ---- utils.js ----
    menuExists,     \* both .nav-toggle and .mobile-menu were found
    menuActive,     \* .mobile-menu carries is-active
    ariaExpanded,   \* the toggle's aria-expanded attribute
    bodyOverflow,   \* document.body.style.overflow
    modalActive,    \* for each .modal element: it carries is-active
    plainActive,    \* the element with an id and no modal class carries is-active
    overlayExists,  \* the page has an .overlay element
    overlayActive,  \* .overlay carries is-active
    scrolledTo,     \* <<>>, or <<top>> of the last window.scrollTo
    fragment,       \* the fragment of the current history entry
    pushed,         \* history entries added by pushState
    uiLast,         \* the last utils event handled (history, for the properties)
    \* ---- page-transition.js ----
    hasTransition,  \* #page-transition exists
    prefersReducedMotion,
    trReady,        \* init(), handleNavigation() and handlePopState() have run
    glitchLines,    \* spans appended to the overlay's .glitch-lines container
    bodyGlitching, bodyLeaving,     \* body classes is-glitching, is-leaving
    glitchActive, glitchExit,       \* overlay classes glitch-active, glitch-exit
    timers,         \* pending timeouts in registration order: [kind, left, url]
    location,       \* window.location.href as last assigned
    interrupted,    \* a link click was intercepted or a history pop was handled
                    \* since the page loaded (history, for the properties)
    trLast          \* the last transition event handled (history, for the properties)

sliderVars == <<trackExists, numCards, phase, cardWidth, gap, currentIndex,
                maxIndex, isDragging, startX, currentX, translateX,
                trackDragging, transform, clickBlockers, resizeTimer,
                sinceResize, last, dragSinceClick>>

uiVars == <<menuExists, menuActive, ariaExpanded, bodyOverflow, modalActive,
            plainActive, overlayExists, overlayActive, scrolledTo, fragment,
            pushed, uiLast>>

trVars == <<hasTransition, prefersReducedMotion, trReady, glitchLines,
            bodyGlitching, bodyLeaving, glitchActive, glitchExit, timers,
            location, interrupted, trLast>>

vars == <<sliderVars, uiVars, trVars>>

(***************************************************************************)
(* Bounds of the model and the measurements the page may report.           *)
(***************************************************************************)
\* the largest card list a page carries
MaxCards == 4
\* click blockers that may be registered at once before the model stops
\* accepting further qualifying drags
MaxBlockers == 2
\* the part of the resize delay the model lets pass in one step, in ms
ResizeStep == 50

CardCounts == {0, MaxCards}
\* card.offsetWidth
CardWidths == {0, 40, 200}
\* track.parentElement.offsetWidth
ContainerWidths == {300, 440}
\* getComputedStyle(track).gap
GapStyles == {"normal", "0px", "16px"}
\* pointer events: e.type with e.pageX (mouse) or e.touches[0].pageX (touch)
PageXs == {0, 10, 60}
PointerEvents ==
    [type : {"mouse"}, pageX : PageXs, touchX : {0}]
        \cup [type : {"touch"}, pageX : {0}, touchX : {60}]
Keys == {"ArrowLeft", "ArrowRight", "Escape"}
\* [top, bottom] of section.getBoundingClientRect() and window.innerHeight
SectionRects == {<<-900, -100>>, <<-100, 500>>, <<600, 1400>>}
InnerHeights == {600}
\* what track.closest('.portfolio-section') and the viewport report at a keydown
SectionViews ==
    [exists : {TRUE}, rect : SectionRects, innerHeight : InnerHeights]
        \cup [exists : {FALSE}, rect : {<<0, 0>>}, innerHeight : InnerHeights]

\* program constants
DefaultGap == 24
ThresholdDivisor == 4
ClickBlockDistance == 10
\* the quiet window of the resize debounce, in ms
ResizeDelay == 100

(***************************************************************************)
(* Pure helpers of slider.js                                               *)
(***************************************************************************)
Abs(x) == IF x < 0 THEN -x ELSE x

Max(a, b) == IF a >= b THEN a ELSE b
Min(a, b) == IF a <= b THEN a ELSE b

\* parseInt of a computed gap; -1 stands for NaN
ParseInt(s) ==
    CASE s = "0px" -> 0
      [] s = "16px" -> 16
      [] OTHER -> -1

\* parseInt(style.gap) || 24 : NaN and 0 are falsy
GapOf(s) == IF ParseInt(s) = -1 \/ ParseInt(s) = 0 THEN DefaultGap ELSE ParseInt(s)

\* Math.floor(containerWidth / (cardWidth + gap)), operands non-negative, divisor > 0
VisibleCards(containerWidth, cw, g) == containerWidth \div (cw + g)

\* Math.max(0, cards.length - visibleCards)
MaxIndexOf(n, containerWidth, cw, g) == Max(0, n - VisibleCards(containerWidth, cw, g))

\* faulty variant: the clamp is skipped
ClampedIndexOff(idx, mx) == idx

\* the clamp of calculateDimensions
ClampedIndex(idx, mx) == IF idx > mx THEN mx ELSE idx

\* -currentIndex * (cardWidth + gap)
Offset(idx, cw, g) == -idx * (cw + g)

PrevIndex(idx) == IF idx > 0 THEN idx - 1 ELSE idx

\* faulty variant: goToNext without its bounds check
NextIndexUnbounded(idx, mx) == idx + 1

NextIndex(idx, mx) == IF idx < mx THEN idx + 1 ELSE idx

\* faulty variant: a drag of exactly the threshold already changes the slide
DragEndIndexInclusive(diff, cw, idx, mx) ==
    IF ThresholdDivisor * diff >= cw /\ idx > 0 THEN idx - 1
    ELSE IF ThresholdDivisor * diff <= -cw /\ idx < mx THEN idx + 1
    ELSE idx

\* the index onDragEnd settles on; threshold = cardWidth / 4 is compared exactly
DragEndIndex(diff, cw, idx, mx) ==
    IF ThresholdDivisor * diff > cw /\ idx > 0 THEN idx - 1
    ELSE IF ThresholdDivisor * diff < -cw /\ idx < mx THEN idx + 1
    ELSE idx

\* Math.abs(diff) > 10
BlocksClick(diff) == Abs(diff) > ClickBlockDistance

\* faulty variant: a click consumes one blocker and leaves the others registered
BlockersAfterClickOne(n) == IF n > 0 THEN n - 1 ELSE 0

\* every registered preventClick runs on the click and removes itself
BlockersAfterClick(n) == 0

\* e.type === 'mousedown' ? e.pageX : e.touches[0].pageX  (and 'mousemove')
EventX(e) == IF e.type = "mouse" THEN e.pageX ELSE e.touchX

\* faulty variant: a section scrolled out above the viewport counts as visible
IsVisibleBelowTop(rect, innerHeight) == rect[1] < innerHeight

\* rect.top < window.innerHeight && rect.bottom > 0
IsVisible(rect, innerHeight) == rect[1] < innerHeight /\ rect[2] > 0

\* faulty variant: the animate flag is ignored and the transition stays enabled
updatePositionAnimated(idx, cw, g, animate) ==
    /\ translateX' = Offset(idx, cw, g)
    /\ trackDragging' = FALSE
    /\ transform' = <<Offset(idx, cw, g)>>

(***************************************************************************)
(* updatePosition(animate), with the index and dimensions current at the   *)
(* call                                                                    *)
(***************************************************************************)
updatePosition(idx, cw, g, animate) ==
    /\ translateX' = Offset(idx, cw, g)
    /\ trackDragging' = ~animate
    /\ transform' = <<Offset(idx, cw, g)>>

SliderInit ==
    /\ trackExists \in BOOLEAN
    /\ numCards \in (IF trackExists THEN CardCounts ELSE {0})
    /\ phase = "loading"
    /\ cardWidth = 0
    /\ gap = DefaultGap
    /\ currentIndex = 0
    /\ maxIndex = 0
    /\ isDragging = FALSE
    /\ startX = 0
    /\ currentX = 0
    /\ translateX = 0
    /\ trackDragging = FALSE
    /\ transform = <<>>
    /\ clickBlockers = 0
    /\ resizeTimer = <<>>
    /\ sinceResize = ResizeDelay
    /\ last = [op |-> "none", idx |-> 0, prevented |-> FALSE]
    /\ dragSinceClick = FALSE

\* the record of an event: its handler, the index it found, whether it
\* called preventDefault
Event(name, prevented) == [op |-> name, idx |-> currentIndex, prevented |-> prevented]

\* the record of an event whose handler does not read the index
Plain(name, prevented) == [op |-> name, idx |-> 0, prevented |-> prevented]

\* calculateDimensions() with the measurements the DOM reports at the call
calculateDimensions(cw, style, containerWidth) ==
    IF numCards = 0
    THEN /\ last' = Event("calculateDimensions", FALSE)
         /\ UNCHANGED <<cardWidth, gap, maxIndex, currentIndex, translateX,
                        trackDragging, transform>>
    ELSE LET g == GapOf(style)
             mx == MaxIndexOf(numCards, containerWidth, cw, g)
         IN /\ cardWidth' = cw
            /\ gap' = g
            /\ maxIndex' = mx
            /\ currentIndex' = ClampedIndex(currentIndex, mx)
            /\ IF currentIndex > mx
               THEN updatePosition(mx, cw, g, FALSE)
               ELSE UNCHANGED <<translateX, trackDragging, transform>>
            /\ last' = Event("calculateDimensions", FALSE)

\* init(): at DOMContentLoaded, or at once when the document is already parsed
DomReady ==
    /\ trackExists /\ phase = "loading"
    /\ UNCHANGED <<uiVars, trVars>>
    /\ phase' = "ready"
    /\ \E cw \in CardWidths, s \in GapStyles, w \in ContainerWidths :
          calculateDimensions(cw, s, w)
    /\ UNCHANGED <<trackExists, numCards, isDragging, startX, currentX,
                   clickBlockers, resizeTimer, sinceResize, dragSinceClick>>

\* window 'load'
WindowLoad ==
    /\ trackExists /\ phase = "ready"
    /\ UNCHANGED <<uiVars, trVars>>
    /\ phase' = phase
    /\ \E cw \in CardWidths, s \in GapStyles, w \in ContainerWidths :
          calculateDimensions(cw, s, w)
    /\ UNCHANGED <<trackExists, numCards, isDragging, startX, currentX,
                   clickBlockers, resizeTimer, sinceResize, dragSinceClick>>

\* faulty variant: the pending timeout is left in place
clearTimeoutMissing(pending) == pending

\* clearTimeout(resizeTimer): the timeout the handle names is dropped, if pending
clearTimeout(pending) ==
    IF pending = <<>> THEN <<>> ELSE SubSeq(pending, 1, Len(pending) - 1)

\* window 'resize': clearTimeout, then a fresh timeout; the history tells a
\* resize that found a timeout pending from one that did not
Resize ==
    /\ trackExists
    /\ UNCHANGED <<uiVars, trVars>>
    /\ resizeTimer' = Append(clearTimeout(resizeTimer), ResizeDelay)
    /\ sinceResize' = 0
    /\ last' = Plain(IF resizeTimer = <<>> THEN "resize" ELSE "resizeAgain", FALSE)
    /\ UNCHANGED <<trackExists, numCards, phase, cardWidth, gap, currentIndex,
                   maxIndex, isDragging, startX, currentX, translateX,
                   trackDragging, transform, clickBlockers, dragSinceClick>>

\* part of the delay passes while a resize timeout is pending
TimePasses ==
    /\ trackExists /\ resizeTimer # <<>>
    /\ UNCHANGED <<uiVars, trVars>>
    /\ \A i \in DOMAIN resizeTimer : ResizeStep < resizeTimer[i]
    /\ resizeTimer' = [i \in DOMAIN resizeTimer |-> resizeTimer[i] - ResizeStep]
    /\ sinceResize' = Min(ResizeDelay, sinceResize + ResizeStep)
    /\ UNCHANGED <<trackExists, numCards, phase, cardWidth, gap, currentIndex,
                   maxIndex, isDragging, startX, currentX, translateX,
                   trackDragging, transform, clickBlockers, last, dragSinceClick>>

\* the rest of the delay passes and the earliest resize timeout fires
ResizeTimeout ==
    /\ trackExists /\ resizeTimer # <<>>
    /\ UNCHANGED <<uiVars, trVars>>
    /\ resizeTimer' = [i \in 1..(Len(resizeTimer) - 1) |->
                          resizeTimer[i + 1] - resizeTimer[1]]
    /\ sinceResize' = Min(ResizeDelay, sinceResize + resizeTimer[1])
    /\ \E cw \in CardWidths, s \in GapStyles, w \in ContainerWidths :
          calculateDimensions(cw, s, w)
    /\ UNCHANGED <<trackExists, numCards, phase, isDragging, startX, currentX,
                   clickBlockers, dragSinceClick>>

goToPrev ==
    /\ currentIndex' = PrevIndex(currentIndex)
    /\ IF currentIndex > 0
       THEN updatePosition(PrevIndex(currentIndex), cardWidth, gap, TRUE)
       ELSE UNCHANGED <<translateX, trackDragging, transform>>
    /\ last' = Event("goToPrev", FALSE)

goToNext ==
    /\ currentIndex' = NextIndex(currentIndex, maxIndex)
    /\ IF currentIndex < maxIndex
       THEN updatePosition(NextIndex(currentIndex, maxIndex), cardWidth, gap, TRUE)
       ELSE UNCHANGED <<translateX, trackDragging, transform>>
    /\ last' = Event("goToNext", FALSE)

\* click on [data-slider="prev"]
PrevClick ==
    /\ trackExists
    /\ UNCHANGED <<uiVars, trVars>>
    /\ goToPrev
    /\ UNCHANGED <<trackExists, numCards, phase, cardWidth, gap, maxIndex,
                   isDragging, startX, currentX, clickBlockers, resizeTimer, sinceResize,
                   dragSinceClick>>

\* click on [data-slider="next"]
NextClick ==
    /\ trackExists
    /\ UNCHANGED <<uiVars, trVars>>
    /\ goToNext
    /\ UNCHANGED <<trackExists, numCards, phase, cardWidth, gap, maxIndex,
                   isDragging, startX, currentX, clickBlockers, resizeTimer, sinceResize,
                   dragSinceClick>>

\* the keydown listener, for key pressed while the section is as sec reports
keydown(key, sec) ==
    IF sec.exists /\ IsVisible(sec.rect, sec.innerHeight) /\ key = "ArrowLeft"
    THEN goToPrev
    ELSE IF sec.exists /\ IsVisible(sec.rect, sec.innerHeight) /\ key = "ArrowRight"
    THEN goToNext
    ELSE /\ last' = Plain("keyIgnored", FALSE)
         /\ UNCHANGED <<currentIndex, translateX, trackDragging, transform>>

\* document 'keydown'
KeyDown ==
    /\ trackExists
    /\ UNCHANGED <<uiVars, trVars>>
    /\ \E key \in Keys, sec \in SectionViews : keydown(key, sec)
    /\ UNCHANGED <<trackExists, numCards, phase, cardWidth, gap, maxIndex,
                   isDragging, startX, currentX, clickBlockers, resizeTimer,
                   sinceResize, dragSinceClick>>

\* mousedown / touchstart on the track
DragStart ==
    /\ trackExists
    /\ UNCHANGED <<uiVars, trVars>>
    /\ \E e \in PointerEvents :
          /\ isDragging' = TRUE
          /\ startX' = EventX(e)
          /\ currentX' = EventX(e)
          /\ trackDragging' = TRUE
          /\ last' = Plain("dragStart", FALSE)
    /\ UNCHANGED <<trackExists, numCards, phase, cardWidth, gap, currentIndex,
                   maxIndex, translateX, transform, clickBlockers, resizeTimer, sinceResize,
                   dragSinceClick>>

\* faulty variant: the offset is taken from the last position, not from the start
onDragMoveFromLast(e) ==
    IF ~isDragging
    THEN /\ last' = Plain("pointerIdle", FALSE)
         /\ UNCHANGED <<transform, currentX>>
    ELSE /\ transform' = <<translateX + (EventX(e) - currentX)>>
         /\ currentX' = EventX(e)
         /\ last' = Plain("dragMove", TRUE)

\* onDragMove(e)
onDragMove(e) ==
    IF ~isDragging
    THEN /\ last' = Plain("pointerIdle", FALSE)
         /\ UNCHANGED <<transform, currentX>>
    ELSE /\ transform' = <<translateX + (EventX(e) - startX)>>
         /\ currentX' = EventX(e)
         /\ last' = Plain("dragMove", TRUE)

\* mousemove on the window / touchmove on the track
DragMove ==
    /\ trackExists
    /\ UNCHANGED <<uiVars, trVars>>
    /\ \E e \in PointerEvents : onDragMove(e)
    /\ UNCHANGED <<trackExists, numCards, phase, cardWidth, gap, currentIndex,
                   maxIndex, isDragging, startX, translateX, trackDragging,
                   clickBlockers, resizeTimer, sinceResize, dragSinceClick>>

\* mouseup on the window / touchend on the track
DragEnd ==
    /\ trackExists
    /\ UNCHANGED <<uiVars, trVars>>
    /\ IF ~isDragging
       THEN /\ last' = Plain("pointerIdle", FALSE)
            /\ UNCHANGED <<isDragging, currentIndex, translateX, trackDragging,
                           transform, clickBlockers, dragSinceClick>>
       ELSE LET diff == currentX - startX
                idx == DragEndIndex(diff, cardWidth, currentIndex, maxIndex)
            IN /\ BlocksClick(diff) => clickBlockers < MaxBlockers
               /\ isDragging' = FALSE
               /\ currentIndex' = idx
               /\ updatePosition(idx, cardWidth, gap, TRUE)
               /\ clickBlockers' = IF BlocksClick(diff) THEN clickBlockers + 1
                                   ELSE clickBlockers
               /\ dragSinceClick' = (dragSinceClick \/ Abs(diff) > ClickBlockDistance)
               /\ last' = Event("dragEnd", FALSE)
    /\ UNCHANGED <<trackExists, numCards, phase, cardWidth, gap, maxIndex,
                   startX, currentX, resizeTimer, sinceResize>>

\* a click that reaches the track in the capture phase
TrackClick ==
    /\ trackExists
    /\ UNCHANGED <<uiVars, trVars>>
    /\ clickBlockers' = BlockersAfterClick(clickBlockers)
    /\ last' = Plain("trackClick", clickBlockers > 0)
    /\ dragSinceClick' = FALSE
    /\ UNCHANGED <<trackExists, numCards, phase, cardWidth, gap, currentIndex,
                   maxIndex, isDragging, startX, currentX, translateX,
                   trackDragging, transform, resizeTimer, sinceResize>>

SliderNext ==
    \/ DomReady
    \/ WindowLoad
    \/ Resize
    \/ ResizeTimeout
    \/ PrevClick
    \/ NextClick
    \/ KeyDown
    \/ DragStart
    \/ DragMove
    \/ DragEnd
    \/ TrackClick

\* the resize debounce, with the clicks that move the index it may clamp
ResizeNext ==
    \/ DomReady
    \/ Resize
    \/ TimePasses
    \/ ResizeTimeout
    \/ PrevClick
    \/ NextClick

\* a page without a slider track: the script returns before attaching anything
SliderIdle == SliderInit /\ ~trackExists

(***************************************************************************)
(* utils.js : mobile navigation, modals, smooth scroll                     *)
(***************************************************************************)
\* elements with class modal
ModalIds == {"m1", "m2"}
\* ids document.getElementById resolves; "plain" has an id and no modal class
ElementIds == ModalIds \cup {"plain"}
\* ids querySelector resolves for an anchor href
AnchorTargets == {"#about"}
\* history entries smooth scroll may push before the model stops accepting more
MaxPushes == 2

\* what a click target reports to the listeners that see the click:
\*   toggle  the target is inside .nav-toggle
\*   inMenu  the target is inside .mobile-menu;  isA  e.target.matches('a')
\*   open    data-modal-open of the closest trigger, "-" when there is none
\*   closer  a [data-modal-close] ancestor exists;  overlay  e.target.matches('.overlay')
\*   href    href of the closest a[href^="#"], "-" when there is none
Target(toggle, inMenu, isA, open, closer, overlay, href) ==
    [toggle |-> toggle, inMenu |-> inMenu, isA |-> isA, open |-> open,
     closer |-> closer, overlay |-> overlay, href |-> href]

ClickTargets ==
    { Target(TRUE, FALSE, FALSE, "-", FALSE, FALSE, "-"),
      Target(FALSE, TRUE, TRUE, "-", FALSE, FALSE, "-"),
      Target(FALSE, TRUE, TRUE, "-", FALSE, FALSE, "#about"),
      Target(FALSE, TRUE, FALSE, "-", FALSE, FALSE, "-"),
      Target(FALSE, TRUE, TRUE, "m1", FALSE, FALSE, "-"),
      Target(FALSE, FALSE, FALSE, "m1", FALSE, FALSE, "-"),
      Target(FALSE, FALSE, FALSE, "m2", FALSE, FALSE, "-"),
      Target(FALSE, FALSE, FALSE, "plain", FALSE, FALSE, "-"),
      Target(FALSE, FALSE, FALSE, "missing", FALSE, FALSE, "-"),
      Target(FALSE, FALSE, FALSE, "-", TRUE, FALSE, "-"),
      Target(FALSE, FALSE, FALSE, "-", FALSE, TRUE, "-"),
      Target(FALSE, FALSE, TRUE, "-", FALSE, FALSE, "#"),
      Target(FALSE, FALSE, TRUE, "-", FALSE, FALSE, "#about"),
      Target(FALSE, FALSE, TRUE, "-", FALSE, FALSE, "#nowhere"),
      Target(FALSE, FALSE, FALSE, "-", FALSE, FALSE, "-") }

\* target.getBoundingClientRect().top, window.scrollY, and the header:
\* <<>> when .site-header is absent, <<h>> its offsetHeight
TargetTops == {450}
ScrollYs == {0, 300}
Headers == {<<>>, <<0>>, <<80>>}

\* document.querySelector('.site-header')?.offsetHeight || 0
HeaderHeight(header) == IF header = <<>> THEN 0 ELSE header[1]

\* the scroll position that leaves the target under the fixed header
TargetPositionUnderHeader(top, scrollY, header) == top + scrollY

\* target top + window.scrollY - headerHeight
TargetPosition(top, scrollY, header) == top + scrollY - HeaderHeight(header)

\* String(b), as setAttribute stores a boolean
BoolString(b) == IF b THEN "true" ELSE "false"

\* the utils state a handler reads and writes
UiState ==
    [menuActive |-> menuActive, ariaExpanded |-> ariaExpanded,
     bodyOverflow |-> bodyOverflow, modalActive |-> modalActive,
     plainActive |-> plainActive, overlayActive |-> overlayActive,
     scrolledTo |-> scrolledTo, fragment |-> fragment, pushed |-> pushed,
     prevented |-> FALSE]

\* faulty variant: aria-expanded receives the state before the toggle
ToggleClickStaleAria(st) ==
    LET isOpen == st.menuActive
    IN [st EXCEPT !.menuActive = ~isOpen,
                  !.ariaExpanded = BoolString(isOpen),
                  !.bodyOverflow = IF isOpen THEN "" ELSE "hidden"]

\* click listener of .nav-toggle
ToggleClick(st) ==
    LET isOpen == st.menuActive
    IN [st EXCEPT !.menuActive = ~isOpen,
                  !.ariaExpanded = BoolString(~isOpen),
                  !.bodyOverflow = IF isOpen THEN "" ELSE "hidden"]

\* the closing branch shared by the menu's Escape and link-click listeners
MenuClose(st) ==
    [st EXCEPT !.menuActive = FALSE, !.ariaExpanded = "false", !.bodyOverflow = ""]

\* keydown listener of initMobileNav
MenuKeyDown(st, key) ==
    IF key = "Escape" /\ st.menuActive THEN MenuClose(st) ELSE st

\* click listener of .mobile-menu
MenuClick(st, el) == IF el.isA THEN MenuClose(st) ELSE st

\* faulty variant: querySelector in place of querySelectorAll closes one modal
closeFirstModal(st) ==
    LET open == {m \in ModalIds : st.modalActive[m]}
        first == IF open = {} THEN "-" ELSE CHOOSE m \in open : TRUE
    IN [st EXCEPT !.modalActive = [m \in ModalIds |-> st.modalActive[m] /\ m # first],
                  !.overlayActive = FALSE,
                  !.bodyOverflow = ""]

\* closeAllModals()
closeAllModals(st) ==
    [st EXCEPT !.modalActive = [m \in ModalIds |-> FALSE],
               !.overlayActive = FALSE,
               !.bodyOverflow = ""]

\* the open branch of the delegated click listener of initModals
OpenModal(st, id) ==
    IF id \in ElementIds
    THEN [st EXCEPT !.modalActive = [m \in ModalIds |-> (m = id) \/ st.modalActive[m]],
                    !.plainActive = (id = "plain") \/ st.plainActive,
                    !.overlayActive = overlayExists \/ st.overlayActive,
                    !.bodyOverflow = "hidden"]
    ELSE st

\* delegated click listener of initModals
ModalClick(st, el) ==
    IF el.open # "-" THEN OpenModal(st, el.open)
    ELSE IF el.closer \/ el.overlay THEN closeAllModals(st)
    ELSE st

\* keydown listener of initModals
ModalKeyDown(st, key) == IF key = "Escape" THEN closeAllModals(st) ELSE st

\* the smooth scroll listener acts on this click
ScrollsTo(el) == el.href # "-" /\ el.href # "#" /\ el.href \in AnchorTargets

\* delegated click listener of initSmoothScroll
SmoothScrollClick(st, el, top, scrollY, header) ==
    IF ScrollsTo(el)
    THEN [st EXCEPT !.prevented = TRUE,
                    !.scrolledTo = <<TargetPosition(top, scrollY, header)>>,
                    !.fragment = el.href,
                    !.pushed = st.pushed + 1]
    ELSE st

\* what the modal listener did with a click
ModalOutcome(el) ==
    IF el.open # "-" THEN (IF el.open \in ElementIds THEN "open" ELSE "openMissing")
    ELSE IF el.closer \/ el.overlay THEN "close"
    ELSE "none"

ActiveModals == {m \in ModalIds : modalActive[m]}

UiCommit(st) ==
    /\ menuActive' = st.menuActive
    /\ ariaExpanded' = st.ariaExpanded
    /\ bodyOverflow' = st.bodyOverflow
    /\ modalActive' = st.modalActive
    /\ plainActive' = st.plainActive
    /\ overlayActive' = st.overlayActive
    /\ scrolledTo' = st.scrolledTo
    /\ fragment' = st.fragment
    /\ pushed' = st.pushed

UtilsInit ==
    /\ menuExists \in BOOLEAN
    /\ overlayExists \in BOOLEAN
    /\ menuActive = FALSE
    /\ ariaExpanded = "false"
    /\ bodyOverflow = ""
    /\ modalActive = [m \in ModalIds |-> FALSE]
    /\ plainActive = FALSE
    /\ overlayActive = FALSE
    /\ scrolledTo = <<>>
    /\ fragment = ""
    /\ pushed = 0
    /\ uiLast = [ev |-> "none", modal |-> "none", id |-> "-", n |-> 0,
                 prevented |-> FALSE]

\* the listeners a click on el reaches, in order: the toggle's and the menu's
\* when the target is inside them, then the document's as init() added them;
\* top, y and header are what smooth scroll measures
clickListeners(el, top, y, header) ==
    /\ (el.toggle \/ el.inMenu) => menuExists
    /\ el.overlay => overlayExists
    /\ ScrollsTo(el) => pushed < MaxPushes
    /\ LET s1 == IF el.toggle THEN ToggleClick(UiState) ELSE UiState
           s2 == IF el.inMenu THEN MenuClick(s1, el) ELSE s1
           s3 == ModalClick(s2, el)
           s4 == SmoothScrollClick(s3, el, top, y, header)
       IN /\ UiCommit(s4)
          /\ uiLast' = [ev |-> "click", modal |-> ModalOutcome(el),
                        id |-> el.open, n |-> Cardinality(ActiveModals),
                        prevented |-> s4.prevented]

\* a click anywhere in the document
UiClick ==
    /\ UNCHANGED <<sliderVars, trVars>>
    /\ \E el \in ClickTargets, top \in TargetTops, y \in ScrollYs, header \in Headers :
          clickListeners(el, top, y, header)
    /\ UNCHANGED <<menuExists, overlayExists>>

\* a keydown, seen by the document's listeners in the order init() added them
UiKeyDown ==
    /\ UNCHANGED <<sliderVars, trVars>>
    /\ \E key \in Keys :
          LET s1 == IF menuExists THEN MenuKeyDown(UiState, key) ELSE UiState
              s2 == ModalKeyDown(s1, key)
          IN /\ UiCommit(s2)
             /\ uiLast' = [ev |-> "key",
                           modal |-> IF key = "Escape" THEN "close" ELSE "none",
                           id |-> "-", n |-> Cardinality(ActiveModals),
                           prevented |-> FALSE]
    /\ UNCHANGED <<menuExists, overlayExists>>

UtilsNext ==
    \/ UiClick
    \/ UiKeyDown

\* a page with neither menu nor overlay, before any event
UtilsIdle == UtilsInit /\ ~menuExists /\ ~overlayExists

(***************************************************************************)
(* page-transition.js                                                      *)
(***************************************************************************)
\* delayed navigations that may be pending before the model stops accepting more
MaxNavTimers == 2
\* the longest step by which the model lets time pass, in ms
Tick == 250

\* program constants
GlitchLineCount == 20
OverlayDelay == 50
EntranceDuration == 500
ExitDuration == 400
NavigateDelay == 450

PageHost == "site"
PagePath == "/"

\* an anchor element as handleNavigation reads it: attr is the href attribute
\* as written, the rest what the element's URL getters return (hash is "" for
\* an empty fragment, so for href="#"); href is the resolved URL
Link(attr, hostname, pathname, hash, download, target) ==
    [attr |-> attr, hostname |-> hostname, pathname |-> pathname, hash |-> hash,
     download |-> download, target |-> target,
     href |-> hostname \o pathname \o (IF attr = "#" THEN "#" ELSE hash)]

Links ==
    { Link("/about", "site", "/about", "", FALSE, ""),
      Link("#", "site", "/", "", FALSE, ""),
      Link("//other/", "other", "/", "", FALSE, ""),
      Link("/file", "site", "/file", "", TRUE, ""),
      Link("/about", "site", "/about", "", FALSE, "_blank"),
      Link("#work", "site", "/", "#work", FALSE, ""),
      Link("/about#team", "site", "/about", "#team", FALSE, "") }

\* href attributes that name a place in the page itself
FragmentHrefs == {"#", "#work"}

\* the modifier keys of a click
Mods(ctrl, meta, shift, alt) == [ctrl |-> ctrl, meta |-> meta, shift |-> shift, alt |-> alt]

Modifiers ==
    { Mods(FALSE, FALSE, FALSE, FALSE), Mods(TRUE, FALSE, FALSE, FALSE),
      Mods(FALSE, TRUE, FALSE, FALSE), Mods(FALSE, FALSE, TRUE, FALSE),
      Mods(FALSE, FALSE, FALSE, TRUE) }

\* the filters of handleNavigation's click listener, for a click inside a link
Intercepts(link, mods) ==
    /\ link.hostname = PageHost
    /\ ~link.download
    /\ link.target # "_blank"
    /\ ~(link.hash # "" /\ link.pathname = PagePath)
    /\ ~(mods.ctrl \/ mods.meta \/ mods.shift \/ mods.alt)

Timer(kind, delay, url) == [kind |-> kind, left |-> delay, url |-> url]

NavTimers == {i \in DOMAIN timers : timers[i].kind = "nav"}


\* the timer that fires next: the earliest registered among those that are due
IsNextDue(i) ==
    /\ timers[i].left = 0
    /\ \A j \in DOMAIN timers : timers[j].left = 0 => i <= j

Without(seq, i) == [j \in 1..(Len(seq) - 1) |-> IF j < i THEN seq[j] ELSE seq[j + 1]]

TransitionInit ==
    /\ hasTransition \in BOOLEAN
    /\ prefersReducedMotion \in BOOLEAN
    /\ trReady = FALSE
    /\ glitchLines = 0
    /\ bodyGlitching = FALSE
    /\ bodyLeaving = FALSE
    /\ glitchActive = FALSE
    /\ glitchExit = FALSE
    /\ timers = <<>>
    /\ location = PageHost \o PagePath
    /\ interrupted = FALSE
    /\ trLast = [op |-> "none", url |-> ""]

\* createGlitchLines(), init(), handleNavigation(), handlePopState():
\* at DOMContentLoaded, or at once when the document is already parsed
TransitionReady ==
    /\ UNCHANGED <<sliderVars, uiVars>>
    /\ ~trReady
    /\ trReady' = TRUE
    /\ glitchLines' = IF hasTransition THEN GlitchLineCount ELSE 0
    /\ IF ~prefersReducedMotion
       THEN /\ bodyGlitching' = TRUE
            /\ timers' = <<Timer("activate", OverlayDelay, ""),
                           Timer("swap", EntranceDuration, "")>>
       ELSE UNCHANGED <<bodyGlitching, timers>>
    /\ trLast' = [op |-> "init", url |-> ""]
    /\ UNCHANGED <<hasTransition, prefersReducedMotion, interrupted, bodyLeaving,
                   glitchActive, glitchExit, location>>

\* the shortest time left on a pending timeout
NextDeadline ==
    LET lefts == {timers[i].left : i \in DOMAIN timers}
    IN CHOOSE l \in lefts : \A m \in lefts : l <= m

\* time passes while no timeout is due: by one tick, or up to the next deadline
Advance ==
    /\ UNCHANGED <<sliderVars, uiVars>>
    /\ timers # <<>>
    /\ NextDeadline > 0
    /\ timers' = [i \in DOMAIN timers |->
                     [timers[i] EXCEPT !.left = timers[i].left - Min(Tick, NextDeadline)]]
    /\ UNCHANGED <<hasTransition, prefersReducedMotion, interrupted, trReady,
                   glitchLines, bodyGlitching, bodyLeaving, glitchActive, glitchExit, location,
                   trLast>>

\* the 50 ms timeout of init()
ActivateTimeout ==
    /\ UNCHANGED <<sliderVars, uiVars>>
    /\ \E i \in DOMAIN timers :
          /\ IsNextDue(i) /\ timers[i].kind = "activate"
          /\ timers' = Without(timers, i)
    /\ glitchActive' = (hasTransition \/ glitchActive)
    /\ trLast' = [op |-> "activate", url |-> ""]
    /\ UNCHANGED <<hasTransition, prefersReducedMotion, interrupted, trReady,
                   glitchLines, bodyGlitching, bodyLeaving, glitchExit, location>>

\* faulty variant: the swap adds glitch-exit and leaves glitch-active in place
SwapTimeoutKeepsActive ==
    /\ UNCHANGED <<sliderVars, uiVars>>
    /\ \E i \in DOMAIN timers :
          /\ IsNextDue(i) /\ timers[i].kind = "swap"
          /\ timers' = Append(Without(timers, i), Timer("clear", ExitDuration, ""))
    /\ UNCHANGED glitchActive
    /\ glitchExit' = (hasTransition \/ glitchExit)
    /\ trLast' = [op |-> "swap", url |-> ""]
    /\ UNCHANGED <<hasTransition, prefersReducedMotion, interrupted, trReady,
                   glitchLines, bodyGlitching, bodyLeaving, location>>

\* the 500 ms timeout of init(): swaps the overlay to exit, schedules the cleanup
SwapTimeout ==
    /\ UNCHANGED <<sliderVars, uiVars>>
    /\ \E i \in DOMAIN timers :
          /\ IsNextDue(i) /\ timers[i].kind = "swap"
          /\ timers' = Append(Without(timers, i), Timer("clear", ExitDuration, ""))
    /\ glitchActive' = (~hasTransition /\ glitchActive)
    /\ glitchExit' = (hasTransition \/ glitchExit)
    /\ trLast' = [op |-> "swap", url |-> ""]
    /\ UNCHANGED <<hasTransition, prefersReducedMotion, interrupted, trReady,
                   glitchLines, bodyGlitching, bodyLeaving, location>>

\* the 400 ms timeout: clears the entrance state
ClearTimeout ==
    /\ UNCHANGED <<sliderVars, uiVars>>
    /\ \E i \in DOMAIN timers :
          /\ IsNextDue(i) /\ timers[i].kind = "clear"
          /\ timers' = Without(timers, i)
    /\ bodyGlitching' = FALSE
    /\ glitchExit' = (~hasTransition /\ glitchExit)
    /\ trLast' = [op |-> "clear", url |-> ""]
    /\ UNCHANGED <<hasTransition, prefersReducedMotion, interrupted, trReady,
                   glitchLines, bodyLeaving, glitchActive, location>>

\* the 450 ms timeout of navigateTo()
NavigateTimeout ==
    /\ UNCHANGED <<sliderVars, uiVars>>
    /\ \E i \in DOMAIN timers :
          /\ IsNextDue(i) /\ timers[i].kind = "nav"
          /\ timers' = Without(timers, i)
          /\ location' = timers[i].url
          /\ trLast' = [op |-> "navigate", url |-> timers[i].url]
    /\ UNCHANGED <<hasTransition, prefersReducedMotion, interrupted, trReady,
                   glitchLines, bodyGlitching, bodyLeaving, glitchActive, glitchExit>>

\* faulty variant: the reduced-motion shortcut is missing
navigateToAlwaysAnimated(url) ==
    /\ bodyLeaving' = TRUE
    /\ glitchActive' = (hasTransition \/ glitchActive)
    /\ timers' = Append(timers, Timer("nav", NavigateDelay, url))
    /\ UNCHANGED location

\* navigateTo(url)
navigateTo(url) ==
    IF prefersReducedMotion
    THEN /\ location' = url
         /\ UNCHANGED <<bodyLeaving, glitchActive, timers>>
    ELSE /\ bodyLeaving' = TRUE
         /\ glitchActive' = (hasTransition \/ glitchActive)
         /\ timers' = Append(timers, Timer("nav", NavigateDelay, url))
         /\ UNCHANGED location

\* handleNavigation's click listener, for a click inside link with mods held
handleNavigation(link, mods) ==
    IF Intercepts(link, mods)
    THEN /\ ~prefersReducedMotion => Cardinality(NavTimers) < MaxNavTimers
         /\ navigateTo(link.href)
         /\ interrupted' = TRUE
         /\ trLast' = [op |-> "intercepted", url |-> link.href]
    ELSE /\ trLast' = [op |-> "ignored", url |-> ""]
         /\ UNCHANGED <<bodyLeaving, glitchActive, timers, location, interrupted>>

\* a click inside a link, anywhere in the document
LinkClick ==
    /\ UNCHANGED <<sliderVars, uiVars>>
    /\ trReady
    /\ \E link \in Links, mods \in Modifiers : handleNavigation(link, mods)
    /\ UNCHANGED <<hasTransition, prefersReducedMotion, trReady, glitchLines,
                   bodyGlitching, glitchExit>>

\* window 'popstate'
PopState ==
    /\ UNCHANGED <<sliderVars, uiVars>>
    /\ trReady
    /\ bodyGlitching' = TRUE
    /\ glitchActive' = (hasTransition \/ glitchActive)
    /\ interrupted' = TRUE
    /\ trLast' = [op |-> "popstate", url |-> ""]
    /\ UNCHANGED <<hasTransition, prefersReducedMotion, trReady, glitchLines,
                   bodyLeaving, glitchExit, timers, location>>

TransitionNext ==
    \/ TransitionReady
    \/ Advance
    \/ ActivateTimeout
    \/ SwapTimeout
    \/ ClearTimeout
    \/ NavigateTimeout
    \/ LinkClick
    \/ PopState

\* the transition script before the document is parsed
TransitionIdle == TransitionInit /\ ~hasTransition /\ ~prefersReducedMotion

(***************************************************************************)
(* Specifications: one per controller, and the fair and partial ones       *)
(***************************************************************************)
Init == SliderInit /\ UtilsIdle /\ TransitionIdle

Spec == Init /\ [][SliderNext]_vars

\* the debounce in a browser that keeps running: a pending timeout fires
ResizeSpec == Init /\ [][ResizeNext]_vars /\ WF_vars(ResizeTimeout)

UtilsSpecInit == SliderIdle /\ UtilsInit /\ TransitionIdle

UtilsSpec == UtilsSpecInit /\ [][UtilsNext]_vars

TransitionSpecInit == SliderIdle /\ UtilsIdle /\ TransitionInit

TransitionSpec == TransitionSpecInit /\ [][TransitionNext]_vars

\* what the browser does by itself: the document finishes parsing, time
\* passes, and a timeout that is due fires
TimerStep ==
    \/ TransitionReady
    \/ Advance
    \/ ActivateTimeout
    \/ SwapTimeout
    \/ ClearTimeout
    \/ NavigateTimeout

\* the transition controller in a browser that keeps running
TransitionFairSpec == TransitionSpec /\ WF_vars(TimerStep)

(***************************************************************************)
(* Properties                                                              *)
(***************************************************************************)
\* the slider state other than the event history
sliderCore == <<trackExists, numCards, phase, cardWidth, gap, currentIndex,
                maxIndex, isDragging, startX, currentX, translateX,
                trackDragging, transform, clickBlockers, resizeTimer>>

\* C1: in every reachable state of the slider, whatever events and dimension
\* recalculations led to it, 0 <= currentIndex <= maxIndex.
C1_IndexInRange == 0 <= currentIndex /\ currentIndex <= maxIndex

\* a recalculation found the index beyond the new maximum and clamped it
C1_Witness ==
    /\ last.op = "calculateDimensions"
    /\ last.idx > maxIndex
    /\ maxIndex > 0
    /\ currentIndex = maxIndex

\* C2: whenever no drag is in progress, translateX = -currentIndex * (cardWidth + gap).
C2_OffsetMatchesIndex ==
    ~isDragging => translateX = -currentIndex * (cardWidth + gap)

C4_ClickSuppression ==
    [][last'.op = "trackClick" => (last'.prevented <=> dragSinceClick)]_vars

\* a click on the track was cancelled and no blocker is left for the next one
C4_Witness ==
    /\ last.op = "trackClick"
    /\ last.prevented
    /\ clickBlockers = 0

\* C5: right after a dimension recalculation, if the index it found exceeds the
\* new maxIndex then currentIndex = maxIndex, the offset and the rendered
\* transform are -maxIndex * (cardWidth + gap) with the new dimensions and the
\* transition is disabled; otherwise the index is the one it found.
C5_ClampOnRecalculation ==
    last.op = "calculateDimensions" =>
        IF last.idx > maxIndex
        THEN /\ currentIndex = maxIndex
             /\ translateX = -maxIndex * (cardWidth + gap)
             /\ transform = <<-maxIndex * (cardWidth + gap)>>
             /\ trackDragging
        ELSE currentIndex = last.idx

\* a recalculation lowered maxIndex below the index and snapped without animation
C5_Witness ==
    /\ last.op = "calculateDimensions"
    /\ last.idx > maxIndex
    /\ currentIndex = maxIndex
    /\ trackDragging
    /\ ~isDragging

\* C6: goToNext adds exactly one to currentIndex when currentIndex < maxIndex and
\* otherwise changes nothing; goToPrev subtracts exactly one when
\* currentIndex > 0 and otherwise changes nothing.
C6_Navigation ==
    [][/\ last'.op = "goToNext" =>
             IF currentIndex < maxIndex
             THEN currentIndex' = currentIndex + 1
             ELSE UNCHANGED sliderCore
       /\ last'.op = "goToPrev" =>
             IF currentIndex > 0
             THEN currentIndex' = currentIndex - 1
             ELSE UNCHANGED sliderCore]_vars

\* with maxIndex = 3 a next call at index 3 has left the index at 3
C6_Witness ==
    /\ last.op = "goToNext"
    /\ maxIndex = 3
    /\ last.idx = 3
    /\ currentIndex = 3

\* C7: right after a click on an open trigger whose id resolves to a modal, that
\* modal is active, the overlay (when the page has one) is active and the body
\* scroll is locked; right after every close action (close trigger, overlay
\* click, Escape) no modal is active, the overlay is inactive and the scroll is
\* unlocked.
C7_ModalOpenClose ==
    /\ (uiLast.modal = "open" /\ uiLast.id \in ModalIds) =>
          /\ modalActive[uiLast.id]
          /\ overlayExists => overlayActive
          /\ bodyOverflow = "hidden"
    /\ uiLast.modal = "close" =>
          /\ ActiveModals = {}
          /\ ~overlayActive
          /\ bodyOverflow = ""

\* a close action found two modals active and closed both
C7_Witness ==
    /\ uiLast.modal = "close"
    /\ uiLast.n = 2
    /\ ActiveModals = {}
    /\ bodyOverflow = ""

\* C8: from a closed menu with aria-expanded "false", after any toggle clicks,
\* Escape presses and in-menu link clicks, aria-expanded is "true" exactly when
\* the menu carries is-active.
C8_AriaInSync == (ariaExpanded = "true") <=> menuActive

\* the toggle has opened the menu
C8_Witness ==
    /\ menuExists
    /\ menuActive
    /\ ariaExpanded = "true"
    /\ bodyOverflow = "hidden"

\* C9: with reduced motion requested, no state carries an animation-state marker
\* (is-glitching or is-leaving on the body, glitch-active or glitch-exit on the
\* overlay).
C9_NoMarkersUnderReducedMotion ==
    prefersReducedMotion =>
        ~bodyGlitching /\ ~bodyLeaving /\ ~glitchActive /\ ~glitchExit

\* C10: with reduced motion requested, no navigation timeout is ever pending, and
\* right after an intercepted click the location is the link's URL.
C10_ImmediateNavigation ==
    prefersReducedMotion =>
        /\ NavTimers = {}
        /\ trLast.op = "intercepted" => location = trLast.url

\* under reduced motion an intercepted click has navigated to another page
C10_Witness ==
    /\ prefersReducedMotion
    /\ trLast.op = "intercepted"
    /\ location = trLast.url
    /\ location # PageHost \o PagePath

\* C11: a click on a link whose href begins with '#' is prevented, scrolls to
\* target top + scroll offset - header height (0 without a header) and pushes
\* the fragment exactly when the href is not the bare '#' and its target
\* exists; otherwise smooth scroll changes nothing and prevents nothing
C11_SmoothScroll ==
    [][\A el \in {t \in ClickTargets : t.href # "-"},
          top \in TargetTops, y \in ScrollYs, header \in Headers :
          clickListeners(el, top, y, header) =>
             IF el.href # "#" /\ el.href \in AnchorTargets
             THEN /\ uiLast'.prevented
                  /\ scrolledTo' =
                       <<top + y - (IF header = <<>> THEN 0 ELSE header[1])>>
                  /\ fragment' = el.href
                  /\ pushed' = pushed + 1
             ELSE /\ ~uiLast'.prevented
                  /\ UNCHANGED <<scrolledTo, fragment, pushed>>]_vars

C11_Witness ==
    /\ uiLast.ev = "click" /\ uiLast.prevented /\ uiLast.modal = "none"
    /\ fragment = "#about" /\ pushed = 1
    /\ scrolledTo = <<670>>

\* C12: without a track, or with a track that has no cards, no event changes
\* the slider state: isDragging, currentIndex, translateX, the track's
\* is-dragging marker and its transform stay as they were at construction
C12_NoInitialization ==
    (~trackExists \/ numCards = 0) =>
        /\ ~isDragging
        /\ currentIndex = 0
        /\ translateX = 0
        /\ ~trackDragging
        /\ transform = <<>>

\* C13: on a page without the overlay element the transition controller does
\* nothing: the body gets no marker on load or on history pop, no timeout is
\* pending, and no link click is intercepted or delayed
C13_NoOpWithoutOverlay ==
    ~hasTransition =>
        /\ ~bodyGlitching
        /\ ~bodyLeaving
        /\ timers = <<>>
        /\ trLast.op # "intercepted"

\* an entrance left alone: the overlay exists, motion is allowed, and neither
\* an intercepted click nor a history pop has happened
UndisturbedEntrance == hasTransition /\ ~prefersReducedMotion /\ ~interrupted

\* the phase of the entrance sequence the markers show; 9 for any other mix
EntrancePhase ==
    IF ~trReady THEN 0
    ELSE IF bodyGlitching /\ ~glitchActive /\ ~glitchExit THEN 1
    ELSE IF bodyGlitching /\ glitchActive /\ ~glitchExit THEN 2
    ELSE IF bodyGlitching /\ ~glitchActive /\ glitchExit THEN 3
    ELSE IF ~bodyGlitching /\ ~glitchActive /\ ~glitchExit THEN 4
    ELSE 9

\* C14: with motion allowed and no other event, the entrance passes through
\* its phases in this order and no other: body glitching; overlay active;
\* overlay active replaced by exit; glitching and exit both removed; and the
\* cleared state is eventually reached
C14_EntranceSequence ==
    /\ [][UndisturbedEntrance' =>
             /\ EntrancePhase' \in {EntrancePhase, EntrancePhase + 1}
             /\ EntrancePhase' <= 4]_vars
    /\ UndisturbedEntrance ~> (interrupted \/ EntrancePhase = 4)

C14_Witness ==
    /\ UndisturbedEntrance
    /\ EntrancePhase = 4
    /\ trLast.op = "clear"

\* C15: with motion allowed, a click on a link is intercepted (is-leaving on
\* the body, glitch-active on the overlay, navigation to the link's URL
\* scheduled) exactly when the link has the page's hostname, no download
\* attribute, no _blank target, is not a same-page anchor, and no modifier key
\* is held; any other click is left untouched
C15_Interception ==
    [][\A link \in Links, mods \in Modifiers :
          (~prefersReducedMotion /\ trReady /\ handleNavigation(link, mods)) =>
             IF /\ link.hostname = PageHost
                /\ ~link.download
                /\ link.target # "_blank"
                /\ link.attr \notin FragmentHrefs
                /\ ~(mods.ctrl \/ mods.meta \/ mods.shift \/ mods.alt)
             THEN /\ trLast'.op = "intercepted"
                  /\ bodyLeaving'
                  /\ hasTransition => glitchActive'
                  /\ \E i \in DOMAIN timers' :
                        timers'[i] = Timer("nav", NavigateDelay, link.href)
             ELSE /\ trLast'.op = "ignored"
                  /\ UNCHANGED <<bodyLeaving, glitchActive, timers, location>>]_vars

\* C16: at most one recalculation timeout is pending at any time; each resize
\* event cancels the pending one and starts a fresh one; calculateDimensions
\* runs once per burst: a pending timeout does fire, it fires no sooner than
\* the full delay after the last resize event, and none is left behind it
C16_Debounce ==
    /\ [](Len(resizeTimer) <= 1)
    /\ [][(last'.op \in {"resize", "resizeAgain"} /\ sinceResize' = 0) =>
             resizeTimer' = <<ResizeDelay>>]_vars
    /\ [][Len(resizeTimer') < Len(resizeTimer) =>
             /\ last'.op = "calculateDimensions"
             /\ sinceResize' >= ResizeDelay
             /\ resizeTimer' = <<>>]_vars
    /\ (resizeTimer # <<>>) ~> (resizeTimer = <<>>)

\* a resize event has arrived while the timeout of an earlier one was pending
C16_Witness ==
    /\ last.op = "resizeAgain"
    /\ resizeTimer = <<ResizeDelay>>
    /\ sinceResize = 0
    /\ numCards > 0 /\ phase = "ready"

\* C17: an ArrowLeft or ArrowRight press changes currentIndex only if the
\* slider's section intersects the viewport vertically (top < viewport height
\* and bottom > 0); when it does not, or the key is another key, the slider
\* state is unchanged
C17_KeyNavigation ==
    [][last'.op \in {"goToPrev", "goToNext", "keyIgnored"} =>
         \/ UNCHANGED sliderCore
         \/ ~\E key \in Keys, sec \in SectionViews :
               /\ \/ key \notin {"ArrowLeft", "ArrowRight"}
                  \/ ~sec.exists
                  \/ ~(sec.rect[1] < sec.innerHeight /\ sec.rect[2] > 0)
               /\ keydown(key, sec)]_vars

\* a key was ignored at an index from which either arrow could have moved
C17_Witness ==
    /\ last.op = "keyIgnored"
    /\ 0 < currentIndex /\ currentIndex < maxIndex

\* C18: after every recalculation with at least one card, maxIndex =
\* max(0, totalCards - floor(containerWidth / (cardWidth + gap))) for the
\* measured container width, card width and gap, the gap being 24 only when
\* the computed gap cannot be read as a number
C18_MaxIndex ==
    [][last'.op = "calculateDimensions" =>
         \A cw \in CardWidths, s \in GapStyles, w \in ContainerWidths :
            (numCards > 0 /\ calculateDimensions(cw, s, w)) =>
               LET g == IF ParseInt(s) = -1 THEN 24 ELSE ParseInt(s)
               IN maxIndex' = IF cw + g = 0 THEN 0
                              ELSE Max(0, numCards - (w \div (cw + g)))]_vars

\* C19: while dragging, a move event at x sets the transform to
\* translateX + (x - startX) and currentX to x, and leaves currentIndex and
\* translateX alone; a move or an end event while the slider is idle changes
\* no slider state and does not prevent the event's default
C19_DragMove ==
    [][last'.op \in {"dragMove", "pointerIdle"} =>
         /\ \A e \in PointerEvents :
               onDragMove(e) =>
                  LET x == IF e.type = "mouse" THEN e.pageX ELSE e.touchX
                  IN IF isDragging
                     THEN /\ transform' = <<translateX + (x - startX)>>
                          /\ currentX' = x
                          /\ UNCHANGED <<currentIndex, translateX>>
                     ELSE UNCHANGED sliderCore /\ ~last'.prevented
         /\ (~isDragging /\ DragEnd) =>
               (UNCHANGED sliderCore /\ ~last'.prevented)]_vars

\* a drag has moved away from where it started, by mouse or by touch
C19_Witness ==
    /\ last.op = "dragMove" /\ isDragging
    /\ currentX # startX
    /\ currentIndex > 0
    /\ transform = <<translateX + (currentX - startX)>>

\* C20: from drag start until drag end the track keeps the is-dragging
\* marker, whatever button clicks, arrow keys and recalculations arrive while
\* isDragging is true; and right after the drag has ended with the animated
\* snap the marker is absent
C20_MarkerThroughoutDrag ==
    /\ isDragging => trackDragging
    /\ last.op = "dragEnd" => ~trackDragging

\* C21: on a page with the shared overlay, after any sequence of open
\* triggers, close triggers, overlay clicks and Escape presses, the overlay is
\* active exactly when at least one modal is active
C21_OverlayIffModal ==
    overlayExists => (overlayActive <=> ActiveModals # {})

\* C22: under every interleaving of menu actions (toggle, Escape, in-menu
\* link click) and modal actions (open, close trigger, overlay click, Escape),
\* the body scroll is locked whenever the menu is open or a modal is active
C22_ScrollLocked ==
    (menuActive \/ ActiveModals # {}) => bodyOverflow = "hidden"

\* C23: a click on a same-document anchor link (href beginning with '#', the
\* bare '#' included) never starts the exit sequence or a delayed navigation:
\* the transition controller leaves the markers, the timeouts and the location
\* as they are
C23_AnchorsNotIntercepted ==
    [][\A link \in {l \in Links : l.attr \in FragmentHrefs}, mods \in Modifiers :
          (trReady /\ handleNavigation(link, mods)) =>
             UNCHANGED <<bodyLeaving, glitchActive, glitchExit, bodyGlitching,
                         timers, location>>]_vars

\* the page is still the one that was loaded: no navigation is pending and
\* none has been performed
StaysLoaded == NavTimers = {} /\ location = PageHost \o PagePath

\* a timeout of the given kinds is pending
Pending(kinds) == \E i \in DOMAIN timers : timers[i].kind \in kinds

\* C24: with motion allowed, on a page that stays loaded (also after a history
\* pop), an activated body glitching marker or overlay active marker is
\* removed again.  The only code that removes them is the 500 ms timeout
\* (overlay active) and the 400 ms timeout it schedules (body glitching), so
\* a marker that is set must have its removing timeout pending
C24_MarkersRemoved ==
    (~prefersReducedMotion /\ StaysLoaded) =>
        /\ bodyGlitching => Pending({"swap", "clear"})
        /\ glitchActive => Pending({"swap"})

\* C25: with motion allowed, at most one delayed navigation is pending at
\* any time, and once a link click has started a navigation the overlay
\* never carries the active and the exit marker together
C25_SingleNavigation ==
    ~prefersReducedMotion =>
        /\ Cardinality(NavTimers) <= 1
        /\ trLast.op = "intercepted" => ~(glitchActive /\ glitchExit)

====
